---------------------------- MODULE Spec2Model ----------------------------
(***************************************************************************)
(* Model of the Titanium CLI: the Logger (src/unnamed/part_000), the       *)
(* command registrar applyCommandConfig (src/README.md, lines 165-299),    *)
(* the dispatch of a command line through the nodes it registers, the      *)
(* handler of src/main.js for what cli.init() throws, the legacy entry     *)
(* point run() (src/unnamed/part_002, src/lib/logger.js) and the setup     *)
(* wizard SetupScreens (src/unnamed/part_001).                             *)
(***************************************************************************)
EXTENDS Integers, Sequences, FiniteSets, TLC

\* Largest number of entries kept in the model of the output streams.
MaxOut == 2

\* Largest number of switches on the command line of one invocation.
MaxArgs == 2

VARIABLES
    bannerEnabled,     \* Logger.#bannerEnabled
    skipBanner,        \* Logger.#skipBanner
    bannerRendered,    \* Logger.#bannerRendered
    level,             \* Logger.#level, the threshold
    timestampEnabled,  \* Logger.#timestampEnabled
    out,               \* what was written to process.stdout / process.stderr, in order
    bannerEvents,      \* number of 'cli:logger-banner' events emitted
    lastCall,          \* name of the Logger method called last ("none" before any call)
    conf,              \* the Command Descriptor given to applyCommandConfig
    switches,          \* the command node's switches, in the order cmd.addOption / cmd.option added them
    hooks,             \* names of the options whose preAction hook is registered, in order
    tsListener,        \* whether the 'option:timestamp' listener is registered on the node
    values,            \* the node's option values (defaults, then what parsing stored)
    argv,              \* the switches of the invocation handed to the node
    pos,               \* index of the next element of argv to parse
    hookPos,           \* index of the next preAction hook to fire
    pc,                \* where the invocation is: new, registered, parsing, hooks, action, ran, failed
    cliReady,          \* cli.ready
    cliCommand,        \* cli.command ("none" while unset)
    hookLog,           \* the option callbacks invoked, with the value each was given
    executed,          \* number of calls of cli.executeCommand
    fired,             \* the preAction hooks that fired, in order: the node and the option of each
    commandPlatform,   \* cli.command.platform (NoValue while unset)
    tree,              \* the command nodes of a registered tree: the root command and its subcommands, by name
    cmdNames,          \* the subcommand names of the invocation handed to the root command
    leaf,              \* the node the invocation resolved to (NoValue before)
    thrown,            \* the failure cli.init() threw (kind "none" while it has thrown nothing)
    cliProgram,        \* whether cli.program is set
    hstage,            \* where main.js is: init, caught, printed, helped, exited
    errOut,            \* what console.error printed, block by block
    helpOf,            \* the node whose help was printed ("none" while none was)
    exitStatus,        \* the status the process ended with (Undefined while it runs)
    legacy,            \* the legacy entry point run(): its configuration, where it is, what it printed
    setup              \* the setup wizard: the screen shown, the prompts' answers, config.set / config.save calls

loggerVars == <<bannerEnabled, skipBanner, bannerRendered, level, timestampEnabled,
                out, bannerEvents, lastCall>>

treeVars == <<tree, cmdNames, leaf>>

mainVars == <<thrown, cliProgram, hstage, errOut, helpOf, exitStatus>>

nodeVars == <<conf, switches, hooks, tsListener, values, argv, pos, hookPos, pc,
              cliReady, cliCommand, hookLog, executed, fired, commandPlatform>>

entryVars == <<legacy, setup>>

cliVars == <<conf, switches, hooks, tsListener, values, argv, pos, hookPos, pc,
             cliReady, cliCommand, hookLog, executed, fired, commandPlatform,
             treeVars, mainVars, entryVars>>

vars == <<loggerVars, cliVars>>

----------------------------------------------------------------------------
\* The Logger

\* The value JavaScript yields for a missing property: this.levels[name] of
\* a name that is no level.
Undefined == -1

\* The five severity names: the keys of Logger.levels.
Severities == {"trace", "debug", "info", "warn", "error"}

\* The names setLevel() is called with: the five levels and one that is none.
LevelNames == Severities \cup {"bogus"}

\* Logger.levels
levels ==
    [n \in Severities |->
        CASE n = "trace" -> 1
          [] n = "debug" -> 2
          [] n = "info"  -> 3
          [] n = "warn"  -> 4
          [] n = "error" -> 5333]

\* this.levels[name]
LevelOf(name) == IF name \in DOMAIN levels THEN levels[name] ELSE Undefined

\* JavaScript's a >= b on numbers and undefined: false when either is undefined.
GE(a, b) == a # Undefined /\ b # Undefined /\ a >= b

\* JavaScript truthiness of a threshold: 0 and undefined are falsy.
Truthy(v) == v # Undefined /\ v # 0

\* One write of a message: the stream, the text, and whether the timestamp
\* prefix was written to the stream right before it.
Entry(stream, text, ts) == [stream |-> stream, text |-> text, ts |-> ts]

\* The step is a call of method op.
Called(op) == lastCall' = op

\* render() with the comparison level > threshold in place of >=.
renderStrict(lvl, stream, msg) ==
    IF lvl # Undefined /\ level # Undefined /\ lvl > level
    THEN out' = Append(out, Entry(stream, msg, timestampEnabled))
    ELSE out' = out

\* Logger.render(level, out, msg)
render(lvl, stream, msg) ==
    IF GE(lvl, level)
    THEN out' = Append(out, Entry(stream, msg, timestampEnabled))
    ELSE out' = out

\* The frame of a call that goes through render() only.
RenderFrame ==
    /\ UNCHANGED <<bannerEnabled, skipBanner, bannerRendered, level, timestampEnabled,
                   bannerEvents>>
    /\ UNCHANGED cliVars

Log   == Len(out) < MaxOut /\ Called("log") /\ render(9, "stdout", "log") /\ RenderFrame
Trace == Len(out) < MaxOut /\ Called("trace") /\ render(1, "stdout", "trace") /\ RenderFrame
Debug == Len(out) < MaxOut /\ Called("debug") /\ render(2, "stdout", "debug") /\ RenderFrame
Error == Len(out) < MaxOut /\ Called("error") /\ render(3, "stderr", "error") /\ RenderFrame
Info  == Len(out) < MaxOut /\ Called("info") /\ render(4, "stdout", "info") /\ RenderFrame
Warn  == Len(out) < MaxOut /\ Called("warn") /\ render(5, "stdout", "warn") /\ RenderFrame

\* The levels and streams render() is called with directly.
RenderLevels == {0, 1, 2, 3, 4, 5, 9}
Streams == {"stdout", "stderr"}

\* A direct call render(lvl, s, 'msg')
RenderCall(lvl, s) ==
    /\ Len(out) < MaxOut
    /\ Called("render")
    /\ render(lvl, s, "msg")
    /\ RenderFrame

Render == \E lvl \in RenderLevels, s \in Streams : RenderCall(lvl, s)

\* banner() that does not record that it has rendered.
BannerNoLatch ==
    /\ Len(out) < MaxOut
    /\ Called("banner")
    /\ IF bannerEnabled /\ ~skipBanner /\ Truthy(level) /\ ~bannerRendered
       THEN /\ out' = Append(out, Entry("stdout", "banner", FALSE))
            /\ bannerEvents' = bannerEvents + 1
       ELSE UNCHANGED <<out, bannerEvents>>
    /\ UNCHANGED <<bannerEnabled, skipBanner, bannerRendered, level, timestampEnabled>>
    /\ UNCHANGED cliVars

\* banner() that does not look at skipBanner.
BannerIgnoresSkip ==
    /\ Len(out) < MaxOut
    /\ Called("banner")
    /\ IF bannerEnabled /\ Truthy(level) /\ ~bannerRendered
       THEN /\ out' = Append(out, Entry("stdout", "banner", FALSE))
            /\ bannerRendered' = TRUE
            /\ bannerEvents' = bannerEvents + 1
       ELSE UNCHANGED <<out, bannerRendered, bannerEvents>>
    /\ UNCHANGED <<bannerEnabled, skipBanner, level, timestampEnabled>>
    /\ UNCHANGED cliVars

\* Logger.banner()
Banner ==
    /\ Len(out) < MaxOut
    /\ Called("banner")
    /\ IF bannerEnabled /\ ~skipBanner /\ Truthy(level) /\ ~bannerRendered
       THEN /\ out' = Append(out, Entry("stdout", "banner", FALSE))
            /\ bannerRendered' = TRUE
            /\ bannerEvents' = bannerEvents + 1
       ELSE UNCHANGED <<out, bannerRendered, bannerEvents>>
    /\ UNCHANGED <<bannerEnabled, skipBanner, level, timestampEnabled>>
    /\ UNCHANGED cliVars

\* Logger.bannerEnabled(b), b given
BannerEnabled ==
    /\ Called("bannerEnabled")
    /\ \E b \in BOOLEAN : bannerEnabled' = b
    /\ UNCHANGED <<skipBanner, bannerRendered, level, timestampEnabled, out, bannerEvents>>
    /\ UNCHANGED cliVars

\* Logger.skipBanner(b), b given
SkipBanner ==
    /\ Called("skipBanner")
    /\ \E b \in BOOLEAN : skipBanner' = b
    /\ UNCHANGED <<bannerEnabled, bannerRendered, level, timestampEnabled, out, bannerEvents>>
    /\ UNCHANGED cliVars

\* Logger.setLevel(level)
setLevel(name) == level' = LevelOf(name)

\* A call logger.setLevel(n)
SetLevel ==
    /\ Called("setLevel")
    /\ \E n \in LevelNames : setLevel(n)
    /\ UNCHANGED <<bannerEnabled, skipBanner, bannerRendered, timestampEnabled, out,
                   bannerEvents>>
    /\ UNCHANGED cliVars

\* Logger.silence()
Silence ==
    /\ Called("silence")
    /\ level' = 0
    /\ UNCHANGED <<bannerEnabled, skipBanner, bannerRendered, timestampEnabled, out,
                   bannerEvents>>
    /\ UNCHANGED cliVars

\* Logger.timestampEnabled(b), b given
TimestampEnabled ==
    /\ Called("timestampEnabled")
    /\ \E b \in BOOLEAN : timestampEnabled' = b
    /\ UNCHANGED <<bannerEnabled, skipBanner, bannerRendered, level, out, bannerEvents>>
    /\ UNCHANGED cliVars

\* The Logger as constructed (field initialisers).
LoggerInit ==
    /\ bannerEnabled = TRUE
    /\ skipBanner = FALSE
    /\ bannerRendered = FALSE
    /\ level = 3
    /\ timestampEnabled = FALSE
    /\ out = <<>>
    /\ bannerEvents = 0
    /\ lastCall = "none"

----------------------------------------------------------------------------
\* Command Descriptors

\* JavaScript's undefined and true, as option values.
NoValue == "<undefined>"
JsTrue == "<true>"

\* The flag and option names descriptors are built from.
FlagNames == {"force", "sdk"}
OptionNames == {"sdk", "log-level", "output", "timestamp"}

\* The order Object.entries() yields the names of conf.flags and conf.options.
FlagOrder == <<"force", "sdk", "timestamp">>
OptionOrder == <<"sdk", "log-level", "output", "timestamp", "platform">>

\* An option's meta: default (NoValue when it has none), values (isArray says
\* whether meta.values is an array) and callback: "none" when meta.callback
\* is no function, "setLevel" for a function that calls logger.setLevel(value),
\* "record" for any other function.
Meta(default, isArray, vals, callback) ==
    [default |-> default, isArray |-> isArray, values |-> vals, callback |-> callback]

OptionMetas ==
    [n \in OptionNames |->
        CASE n = "sdk"       -> {Meta("latest", FALSE, {}, "none")}
          [] n = "log-level" -> {Meta("info", TRUE, Severities, "setLevel")}
          [] n = "output"    -> {Meta(NoValue, FALSE, {}, "none"),
                                 Meta("report", FALSE, {}, "record"),
                                 Meta("report", TRUE, {"report", "json"}, "record")}
          [] n = "timestamp" -> {Meta(NoValue, FALSE, {}, "none")}]

AllMetas == UNION {OptionMetas[n] : n \in OptionNames}

NoOptions == [n \in {} |-> NoValue]

\* conf.platforms: whether the descriptor has the map, and its entries (the
\* platform-specific descriptor of each platform name).
Platforms(defined, entries) == [defined |-> defined, entries |-> entries]
NoPlatforms == Platforms(FALSE, NoOptions)
PlatformsMaps ==
    {NoPlatforms,
     Platforms(TRUE, [n \in {"android"} |-> "androidConf"]),
     Platforms(TRUE, [n \in {"ios"} |-> "iosConf"])}

\* The descriptors: any set of flags, any set of options, each with one of
\* its metas. flagDefaults holds meta.default of the flags that declare one.
Descriptors ==
    {[flags |-> f, flagDefaults |-> NoOptions, options |-> o,
      platforms |-> NoPlatforms] :
        f \in SUBSET FlagNames,
        o \in UNION {{m \in [S -> AllMetas] : \A n \in S : m[n] \in OptionMetas[n]} :
                        S \in SUBSET OptionNames}}

\* The metas of the 'platform' option: without and with a default, neither
\* with a callback.
PlatformMetas ==
    {Meta(NoValue, TRUE, {"android", "ios"}, "none"),
     Meta("ios", TRUE, {"android", "ios"}, "none")}

\* The descriptors of the commands that take --platform: the option alone or
\* next to 'output', with any of the platforms maps.
PlatformDescriptors ==
    {[flags |-> {}, flagDefaults |-> NoOptions, options |-> o, platforms |-> p] :
        o \in UNION {{m \in [S -> AllMetas \cup PlatformMetas] :
                        /\ m["platform"] \in PlatformMetas
                        /\ \A n \in S \ {"platform"} : m[n] \in OptionMetas[n]} :
                        S \in {{"platform"}, {"platform", "output"}}},
        p \in PlatformsMaps}

\* The descriptors whose flags carry more than a name: a flag that declares
\* a default, and a flag named like the synthetic --timestamp.
OutputRecord == [n \in {"output"} |-> Meta("report", FALSE, {}, "record")]
LogLevelOnly == [n \in {"log-level"} |-> Meta("info", TRUE, Severities, "setLevel")]
FlagMetaDescriptors ==
    {[flags |-> {"force"}, flagDefaults |-> [n \in {"force"} |-> JsTrue],
      options |-> o, platforms |-> NoPlatforms] : o \in {NoOptions, OutputRecord}}
    \cup
    {[flags |-> {"timestamp"}, flagDefaults |-> NoOptions,
      options |-> LogLevelOnly, platforms |-> NoPlatforms]}

EmptyConf ==
    [flags |-> {}, flagDefaults |-> NoOptions, options |-> NoOptions,
     platforms |-> NoPlatforms]

----------------------------------------------------------------------------
\* applyCommandConfig

\* The command node registration is applied to.
NodeName == "cmd"

Switch(name, kind, default, hasChoices, choices) ==
    [name |-> name, kind |-> kind, default |-> default,
     hasChoices |-> hasChoices, choices |-> choices]

\* if (conf.flags): one boolean switch per flag, in order.
FlagSwitches(c) ==
    LET names == SelectSeq(FlagOrder, LAMBDA n : n \in c.flags)
    IN  [i \in 1..Len(names) |-> Switch(names[i], "flag", NoValue, FALSE, {})]

\* The options the loop over conf.options does not skip.
RegisteredOptions(c) ==
    SelectSeq(OptionOrder, LAMBDA n : n \in DOMAIN c.options /\ n # "sdk")

\* The option switches without the call opt.default(meta.default).
OptionSwitchesNoDefault(c) ==
    LET names == RegisteredOptions(c)
    IN  [i \in 1..Len(names) |->
            Switch(names[i], "option", NoValue,
                   c.options[names[i]].isArray, c.options[names[i]].values)]

\* if (conf.options): one value-taking switch per option that is not 'sdk',
\* with its default and its choices.
OptionSwitches(c) ==
    LET names == RegisteredOptions(c)
    IN  [i \in 1..Len(names) |->
            Switch(names[i], "option", c.options[names[i]].default,
                   c.options[names[i]].isArray, c.options[names[i]].values)]

\* The hooks when only a callback registers one.
HookNamesCallbackOnly(c) ==
    SelectSeq(RegisteredOptions(c), LAMBDA n : c.options[n].callback # "none")

\* The options that get a preAction hook.
HookNames(c) ==
    SelectSeq(RegisteredOptions(c),
              LAMBDA n : c.options[n].callback # "none" \/ n = "platform")

\* The test without its second half.
AddsTimestampWithLogLevel(c) == "log-level" \in DOMAIN c.options

\* Whether the synthetic --timestamp is added.
AddsTimestamp(c) ==
    "log-level" \in DOMAIN c.options /\ "timestamp" \notin DOMAIN c.options

TimestampSwitch(c) ==
    IF AddsTimestamp(c)
    THEN <<Switch("timestamp", "flag", NoValue, FALSE, {})>>
    ELSE <<>>

\* Index of the first switch of sw named name, 0 when there is none.
FindSwitch(sw, name) ==
    IF \E i \in 1..Len(sw) : sw[i].name = name
    THEN CHOOSE i \in 1..Len(sw) :
            /\ sw[i].name = name
            /\ \A j \in 1..(i - 1) : sw[j].name # name
    ELSE 0

\* The values a node holds once its switches are added: addOption stores
\* each default.
DefaultValues(sw) ==
    [n \in {sw[i].name : i \in {j \in 1..Len(sw) : sw[j].default # NoValue}} |->
        sw[FindSwitch(sw, n)].default]

\* applyCommandConfig(cli, cmdName, cmd, conf) on a fresh node
ApplyCommandConfig ==
    /\ pc = "new"
    /\ \E c \in Descriptors \cup PlatformDescriptors \cup FlagMetaDescriptors :
        /\ conf' = c
        /\ switches' = FlagSwitches(c) \o OptionSwitches(c) \o TimestampSwitch(c)
        /\ hooks' = HookNames(c)
        /\ tsListener' = AddsTimestamp(c)
        /\ values' = DefaultValues(OptionSwitches(c))
    /\ pc' = "registered"
    /\ UNCHANGED <<argv, pos, hookPos, cliReady, cliCommand, hookLog, executed, fired,
                   commandPlatform>>
    /\ UNCHANGED loggerVars
    /\ UNCHANGED <<treeVars, mainVars>>
    /\ UNCHANGED entryVars

----------------------------------------------------------------------------
\* One invocation of the registered command

\* What a command line is made of: a switch, with the value given to it.
Token(name, value) == [name |-> name, value |-> value]
Tokens ==
    {Token("timestamp", NoValue), Token("force", NoValue),
     Token("log-level", "trace"), Token("log-level", "bogus"),
     Token("output", "json"), Token("output", "bad"), Token("output", ""),
     Token("sdk", "9.9.9"), Token("platform", "android")}

Argvs == UNION {[1..n -> Tokens] : n \in 0..MaxArgs}

\* cli.ready becomes true once the CLI is initialised.
CliReady ==
    /\ ~cliReady
    /\ cliReady' = TRUE
    /\ UNCHANGED <<conf, switches, hooks, tsListener, values, argv, pos, hookPos, pc,
                   cliCommand, hookLog, executed, fired, commandPlatform>>
    /\ UNCHANGED loggerVars
    /\ UNCHANGED <<treeVars, mainVars>>
    /\ UNCHANGED entryVars

\* Parsing goes on while switches are left, then the preAction hooks fire.
AfterParse(p, args) == IF p > Len(args) THEN "hooks" ELSE "parsing"

\* The command line is handed to the node.
Invoke ==
    /\ pc = "registered"
    /\ \E a \in Argvs :
        /\ argv' = a
        /\ pc' = AfterParse(1, a)
    /\ pos' = 1
    /\ hookPos' = 1
    /\ UNCHANGED <<conf, switches, hooks, tsListener, values, cliReady, cliCommand,
                   hookLog, executed, fired, commandPlatform>>
    /\ UNCHANGED loggerVars
    /\ UNCHANGED <<treeVars, mainVars>>
    /\ UNCHANGED entryVars

\* The listener without the test of cli.ready.
OnOptionTimestampUnguarded ==
    timestampEnabled' = TRUE /\ lastCall' = "timestampEnabled"

\* cmd.on('option:timestamp', ...): the listener of the synthetic --timestamp
OnOptionTimestamp ==
    IF cliReady
    THEN timestampEnabled' = TRUE /\ lastCall' = "timestampEnabled"
    ELSE UNCHANGED <<timestampEnabled, lastCall>>

\* configureOutput({ outputError }): the node is recorded and a TiError thrown
OutputError ==
    /\ cliCommand' = NodeName
    /\ pc' = "failed"

\* A switch whose choices were never set refuses nothing.
ChoicesNotSet(sw, value) == FALSE

\* Whether the value given to switch sw is refused by its choices.
InvalidChoice(sw, value) ==
    sw.kind = "option" /\ sw.hasChoices /\ value # NoValue /\ value \notin sw.choices

\* The value parsing stores: the one given, or true for a switch given alone.
Parsed(value) == IF value = NoValue THEN JsTrue ELSE value

\* The node parses the next switch of the command line.
ParseOption ==
    /\ pc = "parsing"
    /\ LET tok == argv[pos]
           i == FindSwitch(switches, tok.name)
       IN  IF i = 0 \/ InvalidChoice(switches[IF i = 0 THEN 1 ELSE i], tok.value)
           THEN /\ OutputError
                /\ UNCHANGED <<values, pos, timestampEnabled, lastCall>>
           ELSE /\ values' = [n \in DOMAIN values \cup {tok.name} |->
                                IF n = tok.name THEN Parsed(tok.value) ELSE values[n]]
                /\ pos' = pos + 1
                /\ pc' = AfterParse(pos + 1, argv)
                /\ IF tok.name = "timestamp" /\ tsListener
                   THEN OnOptionTimestamp
                   ELSE UNCHANGED <<timestampEnabled, lastCall>>
                /\ UNCHANGED cliCommand
    /\ UNCHANGED <<conf, switches, hooks, tsListener, argv, hookPos, cliReady, hookLog,
                   executed, fired, commandPlatform>>
    /\ UNCHANGED <<bannerEnabled, skipBanner, bannerRendered, level, out, bannerEvents>>
    /\ UNCHANGED <<treeVars, mainVars>>
    /\ UNCHANGED entryVars

\* JavaScript's a || b on option values.
Or(a, b) == IF a = NoValue \/ a = "" THEN b ELSE a

\* cmd.getOptionValue(name)
GetOptionValue(name) == IF name \in DOMAIN values THEN values[name] ELSE NoValue

\* The value a preAction hook hands to the callback.
HookValue(name) ==
    Or(GetOptionValue(name), switches[FindSwitch(switches, name)].default)

\* conf.platforms?.[value]
PlatformConf(c, value) ==
    IF c.platforms.defined /\ value \in DOMAIN c.platforms.entries
    THEN c.platforms.entries[value]
    ELSE NoValue

\* A hook without the platform branch.
SetPlatformNever(c, name, value) == UNCHANGED commandPlatform

\* if (name === 'platform'): cli.command.platform = { conf: platformConf }
\* when the lookup gave a descriptor.
SetPlatform(c, name, value) ==
    IF name = "platform" /\ PlatformConf(c, value) # NoValue
    THEN commandPlatform' = PlatformConf(c, value)
    ELSE UNCHANGED commandPlatform

\* cmd.hook('preAction', ...): the next hook of the node fires
FireHook ==
    /\ pc = "hooks"
    /\ hookPos <= Len(hooks)
    /\ LET name == hooks[hookPos]
           cb == conf.options[name].callback
       IN  /\ IF cb # "none"
              THEN hookLog' = Append(hookLog, [name |-> name, value |-> HookValue(name)])
              ELSE UNCHANGED hookLog
           /\ IF cb = "setLevel"
              THEN setLevel(HookValue(name)) /\ lastCall' = "setLevel"
              ELSE UNCHANGED <<level, lastCall>>
           /\ SetPlatform(conf, name, HookValue(name))
           /\ fired' = Append(fired, [node |-> NodeName, name |-> name])
    /\ hookPos' = hookPos + 1
    /\ UNCHANGED <<conf, switches, hooks, tsListener, values, argv, pos, pc, cliReady,
                   cliCommand, executed>>
    /\ UNCHANGED <<bannerEnabled, skipBanner, bannerRendered, timestampEnabled, out,
                   bannerEvents>>
    /\ UNCHANGED <<treeVars, mainVars>>
    /\ UNCHANGED entryVars

\* .action((...args) => cli.executeCommand(args))
ExecuteCommand ==
    /\ pc = "hooks"
    /\ hookPos > Len(hooks)
    /\ executed' = executed + 1
    /\ pc' = "ran"
    /\ UNCHANGED <<conf, switches, hooks, tsListener, values, argv, pos, hookPos,
                   cliReady, cliCommand, hookLog, fired, commandPlatform>>
    /\ UNCHANGED loggerVars
    /\ UNCHANGED <<treeVars, mainVars>>
    /\ UNCHANGED entryVars

\* The command's run behaviour writes log lines.
RunTrace == pc = "ran" /\ Trace
RunInfo == pc = "ran" /\ Info

----------------------------------------------------------------------------
\* main.js: cli.init() and the handler of what it throws

\* A failure: its kind ("TiError", or "Error" for any other error thrown) and
\* its before and after blocks (NoValue when it has none).
Failure(kind, before, after) == [kind |-> kind, before |-> before, after |-> after]
NoFailure == Failure("none", NoValue, NoValue)
Failures ==
    {Failure(k, b, a) : k \in {"TiError", "Error"},
                        b \in {NoValue, "before"},
                        a \in {NoValue, "after"}}

\* The usage error outputError throws: new TiError(msg)
UsageError == Failure("TiError", NoValue, NoValue)

\* The root program, cli.program.
ProgramName == "titanium"

\* The names of the subcommand nodes applyCommandConfig makes.
SubcommandNames == {"list", "install", "local"}

\* The test of banner(), with the two switches as they are when it is called.
BannerRenders(enabled, skip) ==
    enabled /\ ~skip /\ Truthy(level) /\ ~bannerRendered

\* The three calls without skipBanner(false).
ForcedBannerKeepsSkip ==
    /\ bannerEnabled' = TRUE
    /\ lastCall' = "banner"
    /\ IF BannerRenders(TRUE, skipBanner)
       THEN /\ out' = Append(out, Entry("stdout", "banner", FALSE))
            /\ bannerRendered' = TRUE
            /\ bannerEvents' = bannerEvents + 1
       ELSE UNCHANGED <<out, bannerRendered, bannerEvents>>
    /\ UNCHANGED <<skipBanner, level, timestampEnabled>>

\* logger.bannerEnabled(true); logger.skipBanner(false); logger.banner()
ForcedBanner ==
    /\ bannerEnabled' = TRUE
    /\ skipBanner' = FALSE
    /\ lastCall' = "banner"
    /\ IF BannerRenders(TRUE, FALSE)
       THEN /\ out' = Append(out, Entry("stdout", "banner", FALSE))
            /\ bannerRendered' = TRUE
            /\ bannerEvents' = bannerEvents + 1
       ELSE UNCHANGED <<out, bannerRendered, bannerEvents>>
    /\ UNCHANGED <<level, timestampEnabled>>

\* cli.init() throws before it hands the command line to a command.
InitFails ==
    /\ hstage = "init" /\ thrown = NoFailure
    /\ pc \in {"new", "registered"}
    /\ \E e \in Failures, p \in BOOLEAN :
        /\ thrown' = e
        /\ cliProgram' = p
    /\ UNCHANGED <<hstage, errOut, helpOf, exitStatus>>
    /\ UNCHANGED <<nodeVars, treeVars, loggerVars>>
    /\ UNCHANGED entryVars

\* catch (e): the banner is forced
CatchBanner ==
    /\ hstage = "init" /\ thrown # NoFailure
    /\ ForcedBanner
    /\ hstage' = "caught"
    /\ UNCHANGED <<thrown, cliProgram, errOut, helpOf, exitStatus>>
    /\ UNCHANGED <<nodeVars, treeVars>>
    /\ UNCHANGED entryVars

\* The text that puts the stack in place of every message.
ErrorTextStackOnly(e) ==
    (IF e.before # NoValue THEN <<e.before>> ELSE <<>>)
        \o <<"stack">>
        \o (IF e.after # NoValue THEN <<e.after>> ELSE <<>>)

\* The text handed to console.error, block by block: e.before if any, then
\* 'Error: ' and the message of a TiError or the stack of anything else,
\* then e.after if any.
ErrorText(e) ==
    (IF e.before # NoValue THEN <<e.before>> ELSE <<>>)
        \o <<IF e.kind = "TiError" THEN "Error: message" ELSE "stack">>
        \o (IF e.after # NoValue THEN <<e.after>> ELSE <<>>)

\* console.error(...)
CatchPrint ==
    /\ hstage = "caught"
    /\ errOut' = ErrorText(thrown)
    /\ hstage' = "printed"
    /\ UNCHANGED <<thrown, cliProgram, helpOf, exitStatus>>
    /\ UNCHANGED <<nodeVars, treeVars, loggerVars>>
    /\ UNCHANGED entryVars

\* cli.command || cli.program ("none" when neither is set)
HelpTarget ==
    IF cliCommand # "none" THEN cliCommand
    ELSE IF cliProgram THEN ProgramName
    ELSE "none"

\* process.exitCode, which nothing sets.
ProcessExitCode == Undefined

\* The status Command.help() ends the process with: process.exitCode || 0
HelpExitStatus == IF Truthy(ProcessExitCode) THEN ProcessExitCode ELSE 0

\* (cli.command || cli.program)?.help(): with neither set nothing happens;
\* otherwise the node prints its help and help() ends the process. A
\* subcommand node, made by new Command(name) with no exit override, first
\* runs its 'beforeAll' help text (the forced banner) and exits with the
\* help status. The program and the top-level commands are made in cli.js:
\* with no exit override they exit the same way, with one help() throws out
\* of the handler and the process ends with status 1.
CatchHelp ==
    /\ hstage = "printed"
    /\ IF HelpTarget = "none"
       THEN /\ hstage' = "helped"
            /\ UNCHANGED <<helpOf, exitStatus>>
            /\ UNCHANGED loggerVars
       ELSE /\ helpOf' = HelpTarget
            /\ hstage' = "exited"
            /\ IF HelpTarget \in SubcommandNames
               THEN /\ ForcedBanner
                    /\ exitStatus' = HelpExitStatus
               ELSE /\ UNCHANGED loggerVars
                    /\ \E st \in {HelpExitStatus, 1} : exitStatus' = st
    /\ UNCHANGED <<thrown, cliProgram, errOut>>
    /\ UNCHANGED <<nodeVars, treeVars>>
    /\ UNCHANGED entryVars

\* process.exit(1)
CatchExit ==
    /\ hstage = "helped"
    /\ exitStatus' = 1
    /\ hstage' = "exited"
    /\ UNCHANGED <<thrown, cliProgram, errOut, helpOf>>
    /\ UNCHANGED <<nodeVars, treeVars, loggerVars>>
    /\ UNCHANGED entryVars

\* The Logger calls made while cli.init() runs.
DuringInit == hstage = "init" /\ thrown = NoFailure
InitBanner == DuringInit /\ Banner
InitBannerEnabled == DuringInit /\ BannerEnabled
InitSkipBanner == DuringInit /\ SkipBanner
InitSetLevel == DuringInit /\ SetLevel
InitSilence == DuringInit /\ Silence

----------------------------------------------------------------------------
\* applyCommandConfig on a descriptor with subcommands

\* The top-level command the subcommands hang from, and its module.
RootName == "sdk"
RootModule == "sdk.js"

\* An entry of conf.args.
Arg(name, required) == [name |-> name, required |-> required]

\* A descriptor with arguments and subcommands.
TreeConf(options, args, subcommands, default) ==
    [flags |-> {}, flagDefaults |-> NoOptions, options |-> options,
     platforms |-> NoPlatforms, args |-> args,
     subcommands |-> subcommands, defaultSubcommand |-> default]

\* The options of a node of the tree: none, or one with a callback; the
\* top-level command may have 'platform' next to it.
WithOutput == [n \in {"output"} |-> Meta("report", TRUE, {"report", "json"}, "record")]
WithOutputAndPlatform ==
    [n \in {"output", "platform"} |->
        IF n = "output"
        THEN Meta("report", TRUE, {"report", "json"}, "record")
        ELSE Meta(NoValue, TRUE, {"android", "ios"}, "none")]
TreeOptionMaps == {NoOptions, WithOutput}

\* The descriptors of the subcommands: 'list' and 'local' have no
\* subcommands and may require an argument, 'install' may have the
\* subcommand 'local' and may name it as its default.
LeafConfs ==
    {TreeConf(o, a, NoOptions, NoValue) :
        o \in TreeOptionMaps, a \in {<<>>, <<Arg("version", TRUE)>>}}
InstallConfs ==
    LeafConfs \cup
    {TreeConf(o, <<>>, [n \in {"local"} |-> l], d) :
        o \in TreeOptionMaps, l \in LeafConfs, d \in {NoValue, "local"}}
SubcommandMaps ==
    {NoOptions}
        \cup {[n \in {"list"} |-> l] : l \in LeafConfs}
        \cup {[n \in {"install"} |-> i] : i \in InstallConfs}
        \cup {[n \in {"list", "install"} |-> IF n = "list" THEN l ELSE i] :
                l \in LeafConfs, i \in InstallConfs}

\* The descriptors of the top-level command.
TreeDescriptors ==
    {TreeConf(o, <<>>, subs, d) :
        o \in TreeOptionMaps \cup {WithOutputAndPlatform},
        subs \in SubcommandMaps,
        d \in {NoValue, "list", "install"}}

\* A command node once applyCommandConfig has run on it: what it was given
\* (name, parent, conf, module, isDefault) and what registration added.
Node(name, parent, c, isDefault, module) ==
    [name |-> name, parent |-> parent, conf |-> c, isDefault |-> isDefault,
     module |-> module,
     switches |-> FlagSwitches(c) \o OptionSwitches(c) \o TimestampSwitch(c),
     hooks |-> HookNames(c),
     tsListener |-> AddsTimestamp(c),
     values |-> DefaultValues(OptionSwitches(c)),
     arguments |-> c.args]

\* if (conf.subcommands): the nodes made for the subcommands of descriptor c
\* of node parent, and below. module is parent's module while its
\* descriptor is applied: a subcommand's own module is assigned after its
\* descriptor was applied, so while it is applied the subcommand has none.
RECURSIVE SubcommandNodes(_, _, _)
SubcommandNodes(parent, c, module) ==
    UNION {{Node(n, parent, c.subcommands[n], c.defaultSubcommand = n, module)}
            \cup SubcommandNodes(n, c.subcommands[n], NoValue) :
                n \in DOMAIN c.subcommands}

\* applyCommandConfig(cli, cmdName, cmd, conf) on the top-level command, for
\* a descriptor with subcommands
TreeApplyConfig ==
    /\ pc = "new"
    /\ DuringInit
    /\ \E c \in TreeDescriptors :
        LET nodes == {Node(RootName, NoValue, c, FALSE, RootModule)}
                        \cup SubcommandNodes(RootName, c, RootModule)
        IN  /\ conf' = c
            /\ tree' = [n \in {x.name : x \in nodes} |->
                            CHOOSE x \in nodes : x.name = n]
    /\ pc' = "registered"
    /\ UNCHANGED <<switches, hooks, tsListener, values, argv, pos, hookPos, cliReady,
                   cliCommand, hookLog, executed, fired, commandPlatform>>
    /\ UNCHANGED <<cmdNames, leaf>>
    /\ UNCHANGED <<mainVars, loggerVars>>
    /\ UNCHANGED entryVars

----------------------------------------------------------------------------
\* One invocation of the top-level command

\* The child of node n marked as its default, if any.
DefaultChild(n) == {m \in DOMAIN tree : tree[m].parent = n /\ tree[m].isDefault}

\* Resolution that takes no default subcommand.
ResolveNamedOnly(n, rest) == IF rest # <<>> THEN rest[Len(rest)] ELSE n

\* The node an invocation resolves to from node n with the subcommand names
\* rest left: the named subcommand while names are left, then the default
\* subcommand while there is one.
RECURSIVE ResolveFrom(_, _)
ResolveFrom(n, rest) ==
    IF rest # <<>>
    THEN ResolveFrom(Head(rest), Tail(rest))
    ELSE IF DefaultChild(n) # {}
         THEN ResolveFrom(CHOOSE m \in DefaultChild(n) : TRUE, <<>>)
         ELSE n

\* The subcommand names a command line can start with: each names a
\* subcommand of the node before it.
CommandPaths ==
    {p \in UNION {[1..k -> SubcommandNames] : k \in 0..2} :
        \A i \in 1..Len(p) :
            /\ p[i] \in DOMAIN tree
            /\ tree[p[i]].parent = (IF i = 1 THEN RootName ELSE p[i - 1])}

\* What follows the subcommand names: switches, and positional arguments.
Positional == "<argument>"
TreeTokens ==
    {Token("output", "bad"), Token("force", NoValue), Token(Positional, "9.9.9")}
TreeArgvs == UNION {[1..n -> TreeTokens] : n \in 0..MaxArgs}

\* The command line is handed to the top-level command, which dispatches it.
TreeInvoke ==
    /\ pc = "registered"
    /\ tree # NoOptions
    /\ DuringInit
    /\ \E p \in CommandPaths, a \in TreeArgvs :
        /\ cmdNames' = p
        /\ argv' = a
        /\ leaf' = ResolveFrom(RootName, p)
        /\ values' = tree[ResolveFrom(RootName, p)].values
    /\ pc' = "parsing"
    /\ pos' = 1
    /\ hookPos' = 1
    /\ UNCHANGED <<conf, switches, hooks, tsListener, cliReady, cliCommand, hookLog,
                   executed, fired, commandPlatform>>
    /\ UNCHANGED tree
    /\ UNCHANGED <<mainVars, loggerVars>>
    /\ UNCHANGED entryVars

\* outputError that throws without recording the node.
SubcommandOutputErrorUnrecorded(n) ==
    /\ UNCHANGED cliCommand
    /\ pc' = "failed"
    /\ thrown' = UsageError

\* configureOutput({ outputError }) of subcommand node n: cli.command = subcmd
\* and a TiError is thrown
SubcommandOutputError(n) ==
    /\ cliCommand' = n
    /\ pc' = "failed"
    /\ thrown' = UsageError

\* The same for the top-level command.
CommandOutputError(n) ==
    /\ cliCommand' = n
    /\ pc' = "failed"
    /\ thrown' = UsageError

\* The parse error of node n.
NodeOutputError(n) ==
    IF n \in SubcommandNames THEN SubcommandOutputError(n) ELSE CommandOutputError(n)

\* The resolved node parses the next element of its command line: a
\* positional argument is kept, a switch is parsed as ParseOption does.
TreeParseOption ==
    /\ pc = "parsing"
    /\ leaf # NoValue
    /\ pos <= Len(argv)
    /\ LET tok == argv[pos]
           sw == tree[leaf].switches
           i == FindSwitch(sw, tok.name)
       IN  IF tok.name = Positional
           THEN /\ pos' = pos + 1
                /\ UNCHANGED <<values, pc, cliCommand, thrown>>
           ELSE IF i = 0 \/ InvalidChoice(sw[IF i = 0 THEN 1 ELSE i], tok.value)
           THEN /\ NodeOutputError(leaf)
                /\ UNCHANGED <<values, pos>>
           ELSE /\ values' = [n \in DOMAIN values \cup {tok.name} |->
                                IF n = tok.name THEN Parsed(tok.value) ELSE values[n]]
                /\ pos' = pos + 1
                /\ UNCHANGED <<pc, cliCommand, thrown>>
    /\ UNCHANGED <<conf, switches, hooks, tsListener, argv, hookPos, cliReady, hookLog,
                   executed, fired, commandPlatform>>
    /\ UNCHANGED treeVars
    /\ UNCHANGED <<cliProgram, hstage, errOut, helpOf, exitStatus>>
    /\ UNCHANGED loggerVars
    /\ UNCHANGED entryVars

\* The number of positional arguments on the command line.
Operands == Cardinality({i \in 1..Len(argv) : argv[i].name = Positional})

\* Node n lacks a required argument.
MissingArgument(n) ==
    \E i \in 1..Len(tree[n].arguments) :
        tree[n].arguments[i].required /\ Operands < i

\* The command line is parsed: the resolved node checks its arguments.
TreeProcessArguments ==
    /\ pc = "parsing"
    /\ leaf # NoValue
    /\ pos > Len(argv)
    /\ IF MissingArgument(leaf)
       THEN NodeOutputError(leaf)
       ELSE pc' = "hooks" /\ UNCHANGED <<cliCommand, thrown>>
    /\ UNCHANGED <<conf, switches, hooks, tsListener, values, argv, pos, hookPos,
                   cliReady, hookLog, executed, fired, commandPlatform>>
    /\ UNCHANGED treeVars
    /\ UNCHANGED <<cliProgram, hstage, errOut, helpOf, exitStatus>>
    /\ UNCHANGED loggerVars
    /\ UNCHANGED entryVars

\* The nodes from the top-level command down to node n.
RECURSIVE PathTo(_)
PathTo(n) ==
    IF tree[n].parent = NoValue THEN <<n>> ELSE Append(PathTo(tree[n].parent), n)

Reverse(q) == [i \in 1..Len(q) |-> q[Len(q) + 1 - i]]

\* The preAction hooks of the nodes of path, node after node, each node's
\* in the order they were registered.
RECURSIVE HooksAlong(_)
HooksAlong(path) ==
    IF path = <<>>
    THEN <<>>
    ELSE [i \in 1..Len(tree[Head(path)].hooks) |->
            [node |-> Head(path), name |-> tree[Head(path)].hooks[i]]]
         \o HooksAlong(Tail(path))

\* The hooks taken from the resolved node up.
PreActionHooksLeafFirst(n) == HooksAlong(Reverse(PathTo(n)))

\* The preAction hooks fired for an action of node n: those of the command
\* and its ancestors, the outermost ancestor's first.
PreActionHooks(n) == HooksAlong(PathTo(n))

\* The value the hook of option name of node n hands on: the node's value
\* of the option, else the option's default.
NodeHookValue(n, name) ==
    LET v == IF n = leaf THEN values ELSE tree[n].values
        sw == tree[n].switches
    IN  Or(IF name \in DOMAIN v THEN v[name] ELSE NoValue,
           sw[FindSwitch(sw, name)].default)

\* cmd.hook('preAction', ...): the next hook of the resolved path fires
TreeFireHook ==
    /\ pc = "hooks"
    /\ leaf # NoValue
    /\ hookPos <= Len(PreActionHooks(leaf))
    /\ LET h == PreActionHooks(leaf)[hookPos]
           c == tree[h.node].conf
           cb == c.options[h.name].callback
           value == NodeHookValue(h.node, h.name)
       IN  /\ IF cb # "none"
              THEN hookLog' = Append(hookLog, [name |-> h.name, value |-> value])
              ELSE UNCHANGED hookLog
           /\ IF cb = "setLevel"
              THEN setLevel(value) /\ lastCall' = "setLevel"
              ELSE UNCHANGED <<level, lastCall>>
           /\ SetPlatform(c, h.name, value)
           /\ fired' = Append(fired, h)
    /\ hookPos' = hookPos + 1
    /\ UNCHANGED <<conf, switches, hooks, tsListener, values, argv, pos, pc, cliReady,
                   cliCommand, executed>>
    /\ UNCHANGED <<treeVars, mainVars>>
    /\ UNCHANGED <<bannerEnabled, skipBanner, bannerRendered, timestampEnabled, out,
                   bannerEvents>>
    /\ UNCHANGED entryVars

\* .action((...args) => cli.executeCommand(args)) of the resolved node
TreeExecuteCommand ==
    /\ pc = "hooks"
    /\ leaf # NoValue
    /\ hookPos > Len(PreActionHooks(leaf))
    /\ executed' = executed + 1
    /\ pc' = "ran"
    /\ UNCHANGED <<conf, switches, hooks, tsListener, values, argv, pos, hookPos,
                   cliReady, cliCommand, hookLog, fired, commandPlatform>>
    /\ UNCHANGED <<treeVars, mainVars, loggerVars>>
    /\ UNCHANGED entryVars

----------------------------------------------------------------------------
\* The legacy entry point: run() of src/unnamed/part_002, with the logger of
\* src/lib/logger.js

\* Largest number of entries of paths.sdks in the configuration file, and
\* largest number of times the process is started again.
MaxPaths == 2
MaxRuns == 1

\* Directory names as they are written in the configuration.
Paths == {"~/sdks", "/home/sdks", "/opt/ti"}

\* afs.resolvePath(p): the home directory expanded.
resolvePath(p) == IF p = "~/sdks" THEN "/home/sdks" ELSE p

\* config.get('paths.sdks'): an array or not, and its entries.
SdkPaths(isArray, items) == [isArray |-> isArray, items |-> items]
SdkPathLists ==
    {SdkPaths(FALSE, <<>>)}
        \cup {SdkPaths(TRUE, q) : q \in UNION {[1..n -> Paths] : n \in 0..MaxPaths}}

\* The settings run() reads: sdk.defaultInstallLocation, paths.sdks and
\* sdk.selected.
Configs ==
    [location : {NoValue} \cup Paths, sdkPaths : SdkPathLists,
     selected : {NoValue, "9.0.0"}]

\* The SDKs that may be installed, and what --sdk may be given.
SdkNames == {"2.1.0", "9.0.0"}
SdkArgs == {NoValue, "latest", "9.0.0", "7.7.7", "2.1.0"}

\* appc.version.lt(version, '3.0.0')
TooOld(name) == name = "2.1.0"

\* The installed SDKs of version 3.0.0 or newer: sdks.
Selectable(installed) == {v \in installed : ~TooOld(v)}

\* env.getSDK(name): the SDK of that name, the newest one for no name or
\* 'latest', none (NoValue) when there is no such SDK.
getSDK(name, installed) ==
    IF name \in {NoValue, "latest"}
    THEN IF "9.0.0" \in installed THEN "9.0.0"
         ELSE IF "2.1.0" \in installed THEN "2.1.0" ELSE NoValue
    ELSE IF name \in installed THEN name ELSE NoValue

\* The name looked up with the configured SDK taking precedence.
SdkNameConfigFirst(l) == Or(l.config.selected, l.argvSdk)

\* sdkName = argv.sdk || config.get('sdk.selected', ...)
SdkName(l) == Or(l.argvSdk, l.config.selected)

\* run() as the process starts, on no configuration yet.
LegacyStart ==
    [pc |-> "start", runs |-> 0,
     config |-> [location |-> NoValue, sdkPaths |-> SdkPaths(FALSE, <<>>),
                 selected |-> NoValue],
     ensured |-> FALSE, saves |-> 0, installed |-> {}, argvSdk |-> NoValue,
     sdk |-> NoValue, resolutions |-> 0, bannerEnabled |-> TRUE, silent |-> FALSE,
     out |-> <<>>, exit |-> Undefined, went |-> FALSE]

\* logger.banner(): written when the banner is enabled, unless the console
\* transport is silent (consoul.silent, false until logger.silence() sets
\* it); the banner is disabled afterwards.
LegacyBanner(l) ==
    [l EXCEPT !.out = IF l.bannerEnabled /\ ~l.silent
                      THEN Append(@, "banner") ELSE @,
              !.bannerEnabled = FALSE]

\* logger.error(...) / logger.log(...), through consoul.log
LegacyLog(l, kind) ==
    [l EXCEPT !.out = IF l.silent THEN @ ELSE Append(@, kind)]

\* process.exit(code)
ProcessExit(l, code) == [l EXCEPT !.exit = code, !.pc = "exited"]

\* logger.banner(); logger.error(...); logger.log(...); process.exit(1)
ExitWithError(l) == ProcessExit(LegacyLog(LegacyLog(LegacyBanner(l), "error"), "log"), 1)

LegacyFrame == UNCHANGED <<loggerVars, nodeVars, treeVars, mainVars, setup>>

\* config.load(): the file is read; a bad file is backed up and the default
\* configuration used; when the backup fails the process exits with 1. The
\* first run finds any configuration, a later run the one left by the run
\* before it.
LoadConfig ==
    /\ legacy.pc = "start"
    /\ \E outcome \in {"ok", "reset", "fatal"}, c \in Configs :
        legacy' =
            IF outcome = "fatal"
            THEN ProcessExit(legacy, 1)
            ELSE IF outcome = "ok" /\ legacy.runs > 0
            THEN [legacy EXCEPT !.pc = "paths"]
            ELSE [legacy EXCEPT !.pc = "paths", !.config = c, !.ensured = FALSE]
    /\ LegacyFrame

\* The configured default install location, resolved.
DefaultInstallLocation(c) ==
    IF c.location # NoValue THEN resolvePath(c.location) ELSE NoValue

\* Array.isArray(sdkPaths) || (sdkPaths = [])
PathItems(c) == IF c.sdkPaths.isArray THEN c.sdkPaths.items ELSE <<>>

\* The test that compares the paths as they are written.
LocationMissingUnresolved(c) ==
    /\ DefaultInstallLocation(c) # NoValue
    /\ ~\E i \in 1..Len(PathItems(c)) : PathItems(c)[i] = DefaultInstallLocation(c)

\* defaultInstallLocation && !sdkPaths.some(p => afs.resolvePath(p) === ...)
LocationMissing(c) ==
    /\ DefaultInstallLocation(c) # NoValue
    /\ ~\E i \in 1..Len(PathItems(c)) :
            resolvePath(PathItems(c)[i]) = DefaultInstallLocation(c)

\* "make sure our sdk paths are good to go": the location is pushed and the
\* configuration saved when no path resolves to it.
EnsureSdkPaths ==
    /\ legacy.pc = "paths"
    /\ legacy' =
        IF LocationMissing(legacy.config)
        THEN [legacy EXCEPT
                !.config.sdkPaths =
                    SdkPaths(TRUE, Append(PathItems(legacy.config),
                                          DefaultInstallLocation(legacy.config))),
                !.saves = @ + 1,
                !.ensured = TRUE,
                !.pc = "resolve"]
        ELSE [legacy EXCEPT !.ensured = TRUE, !.pc = "resolve"]
    /\ LegacyFrame

\* The SDKs are detected, the command line is parsed for --sdk and the SDK
\* is looked up.
ResolveSdk ==
    /\ legacy.pc = "resolve"
    /\ \E installed \in SUBSET SdkNames, a \in SdkArgs :
        LET l == [legacy EXCEPT !.installed = installed, !.argvSdk = a]
        IN  legacy' = [l EXCEPT !.sdk = getSDK(SdkName(l), installed),
                                !.resolutions = @ + 1,
                                !.pc = "resolved"]
    /\ LegacyFrame

\* !sdk && sdks.length && argv.sdk
InvalidSelection(l) ==
    l.sdk = NoValue /\ Selectable(l.installed) # {} /\ Or(l.argvSdk, NoValue) # NoValue

\* "check if --sdk not found": banner, error, the available SDKs, exit 1
InvalidSdk ==
    /\ legacy.pc = "resolved"
    /\ InvalidSelection(legacy)
    /\ legacy' = ExitWithError(legacy)
    /\ LegacyFrame

\* An SDK that is not too old is checked against the version of Node.js
\* (supported: what satisfies() gave, or that it threw) and its commands
\* are scanned; an SDK that is too old is refused unless the command is a
\* built-in one.
CheckSdk ==
    /\ legacy.pc = "resolved"
    /\ ~InvalidSelection(legacy)
    /\ \E supported \in {"yes", "no", "maybe", "throws"}, builtin \in BOOLEAN :
        legacy' =
            IF legacy.sdk # NoValue /\ ~TooOld(legacy.sdk)
            THEN IF supported = "no"
                 THEN ExitWithError(legacy)
                 ELSE [legacy EXCEPT !.pc = "go"]
            ELSE IF legacy.sdk # NoValue /\ TooOld(legacy.sdk) /\ ~builtin
            THEN ProcessExit(LegacyLog(LegacyBanner(legacy), "error"), 1)
            ELSE [legacy EXCEPT !.pc = "go"]
    /\ LegacyFrame

\* cli.go(): the command line is dispatched, and the callback of the quiet
\* flag calls logger.silence(!!value) with the flag's value.
Go ==
    /\ legacy.pc = "go"
    /\ \E quiet \in BOOLEAN :
        legacy' = [legacy EXCEPT !.went = TRUE, !.silent = quiet, !.pc = "running"]
    /\ LegacyFrame

\* checkTitaniumSdk(), the listener of 'cli:command-not-found' and
\* 'help:header', fires while the command line is dispatched: it reports
\* that no SDK can be selected, or looks the configured SDK up again to
\* report it as invalid or too old; cli.sdk is left as run() set it.
CheckTitaniumSdk ==
    /\ legacy.pc = "running"
    /\ LET configured == getSDK(legacy.config.selected, legacy.installed)
           reports ==
                \/ Selectable(legacy.installed) = {}
                \/ /\ Or(legacy.argvSdk, NoValue) = NoValue
                   /\ legacy.config.selected # NoValue
                   /\ configured = NoValue \/ TooOld(configured)
       IN  legacy' = [(IF reports THEN LegacyLog(legacy, "error") ELSE legacy)
                        EXCEPT !.pc = "checked"]
    /\ LegacyFrame

\* The command is run once more, in a new process, on the configuration the
\* process before it left.
RunAgain ==
    /\ legacy.pc \in {"running", "checked", "exited"}
    /\ legacy.runs < MaxRuns
    /\ legacy' = [LegacyStart EXCEPT !.runs = legacy.runs + 1,
                                     !.config = legacy.config,
                                     !.ensured = legacy.ensured]
    /\ LegacyFrame

----------------------------------------------------------------------------
\* The setup wizard: SetupScreens of src/unnamed/part_001

\* Largest number of screens shown in one run, and of directories the
\* environment check looks at.
MaxScreens == 3
MaxDirs == 2

\* The names n for which SetupScreens has a method nScreen.
ScreenNames ==
    {"mainmenu", "quick", "check", "user", "app", "network", "cli", "android", "ios"}

\* The screens that prompt for settings and write them.
ConfigScreens == {"quick", "user", "app", "network", "cli", "android"}

\* What cli.argv._[0] may be: nothing, a screen, or no screen.
SetupArgs == {NoValue, "mainmenu", "quick", "check", "ios", "bogus"}

\* What the main menu's prompt may return as value: nothing (interrupted),
\* a number, a highlighted character, a name, and texts that are no entry.
MenuInputs ==
    {NoValue, "1", "2", "u", "app", "network", "cli", "android", "ios", "x", "bogus",
     "toString"}

\* A value that is no name of a screen: the inherited property an object
\* literal yields for a key such as 'toString'.
InheritedProperty == "<function>"

\* lookup[value] of the main menu: the entries it builds for the screens
\* (without 'ios' unless the platform is darwin) and for exit.
Lookup(value, darwin) ==
    CASE value = "1" -> "quick"
      [] value = "2" -> "check"
      [] value = "u" -> "user"
      [] value \in {"app", "network", "cli", "android"} -> value
      [] value = "ios" -> IF darwin THEN "ios" ELSE NoValue
      [] value = "x" -> "exit"
      [] value = "toString" -> InheritedProperty
      [] OTHER -> NoValue

\* The loop taking what the screen returned as it is.
NextAfterResult(result) == result

\* next = (await screen.call(this)) || 'mainmenu'
NextAfter(result) == Or(result, "mainmenu")

\* The state of a directory the environment check looks at: not configured,
\* missing, existing and writable, existing and not writable.
DirStates == {"unset", "missing", "writable", "readonly"}

\* isDirWritable(dir): undefined for a missing directory; the directory when
\* the temp file was written (the finally block then removes it); for a
\* directory that cannot be written to, writeFileSync throws and
\* unlinkSync(tmpFile) in the finally block throws on the file that was
\* never made.
isDirWritable(state) ==
    CASE state = "missing"  -> "undefined"
      [] state = "writable" -> "dir"
      [] state = "readonly" -> "throws"

\* A line of the report: the directory it is about, its kind, and whether
\* its text names the directory.
Line(dir, kind, named) == [dir |-> dir, kind |-> kind, named |-> named]

\* new SetupScreens(logger, config, cli)
SetupStart ==
    [pc |-> "start", argv0 |-> NoValue, darwin |-> FALSE, next |-> NoValue,
     screen |-> NoValue, shown |-> <<>>, prompt |-> "none", sets |-> 0, saves |-> 0,
     dirs |-> <<>>, dirPos |-> 1, report |-> <<>>]

SetupFrame == UNCHANGED <<loggerVars, nodeVars, treeVars, mainVars, legacy>>

\* run(): let next = this.cli.argv._[0] || 'mainmenu'
SetupRun ==
    /\ setup.pc = "start"
    /\ \E a \in SetupArgs, d \in BOOLEAN :
        setup' = [setup EXCEPT !.argv0 = a, !.darwin = d,
                               !.next = Or(a, "mainmenu"), !.pc = "loop"]
    /\ SetupFrame

\* while (screen = this[`${next}Screen`]): the screen is called, or the loop
\* ends and run() returns.
EnterScreen ==
    /\ setup.pc = "loop"
    /\ Len(setup.shown) < MaxScreens
    /\ setup' =
        IF setup.next \in ScreenNames
        THEN [setup EXCEPT !.screen = setup.next, !.shown = Append(@, setup.next),
                           !.prompt = "none", !.sets = 0, !.saves = 0,
                           !.pc = "screen"]
        ELSE [setup EXCEPT !.pc = "returned"]
    /\ SetupFrame

\* The screen returned result to the loop.
Complete(l, result) == [l EXCEPT !.next = NextAfter(result), !.pc = "loop"]

\* mainmenuScreen(): the prompt's value is looked up; no entry or 'exit'
\* ends the process with 0.
MainmenuScreen ==
    /\ setup.pc = "screen" /\ setup.screen = "mainmenu"
    /\ \E value \in MenuInputs :
        LET next == Lookup(value, setup.darwin)
            l == [setup EXCEPT !.prompt = IF value = NoValue
                                          THEN "interrupted" ELSE "answered"]
        IN  setup' = IF next = NoValue \/ next = "exit"
                     THEN [l EXCEPT !.pc = "exited"]
                     ELSE Complete(l, next)
    /\ SetupFrame

\* A screen prompted (answered says whether the prompt returned its answer
\* fields), called config.set sets times and config.save saves times, and
\* returned nothing.
ScreenWrote(answered, sets, saves) ==
    Complete([setup EXCEPT !.prompt = IF answered THEN "answered" ELSE "interrupted",
                           !.sets = sets, !.saves = saves], NoValue)

\* quickScreen(): user.name and app.workspace are set, android.sdkPath when
\* it is not undefined, and the configuration is saved.
QuickScreen ==
    /\ setup.pc = "screen" /\ setup.screen = "quick"
    /\ \E answered \in BOOLEAN :
        setup' = ScreenWrote(answered, IF answered THEN 3 ELSE 2, 1)
    /\ SetupFrame

\* userScreen(): if (name) the name is set and the configuration saved.
UserScreen ==
    /\ setup.pc = "screen" /\ setup.screen = "user"
    /\ \E answered \in BOOLEAN :
        setup' = ScreenWrote(answered, IF answered THEN 1 ELSE 0, IF answered THEN 1 ELSE 0)
    /\ SetupFrame

\* appScreen(): four settings are set and the configuration is saved.
AppScreen ==
    /\ setup.pc = "screen" /\ setup.screen = "app"
    /\ \E answered \in BOOLEAN : setup' = ScreenWrote(answered, 4, 1)
    /\ SetupFrame

\* networkScreen(): two settings are set and the configuration is saved.
NetworkScreen ==
    /\ setup.pc = "screen" /\ setup.screen = "network"
    /\ \E answered \in BOOLEAN : setup' = ScreenWrote(answered, 2, 1)
    /\ SetupFrame

\* cliScreen(): this.logger.setLevel(values.logLevel), then five settings
\* are set and the configuration is saved.
CliScreen ==
    /\ setup.pc = "screen" /\ setup.screen = "cli"
    /\ \E answered \in BOOLEAN, name \in Severities :
        /\ setLevel(IF answered THEN name ELSE NoValue)
        /\ setup' = ScreenWrote(answered, 5, 1)
    /\ lastCall' = "setLevel"
    /\ UNCHANGED <<bannerEnabled, skipBanner, bannerRendered, timestampEnabled, out,
                   bannerEvents>>
    /\ UNCHANGED <<nodeVars, treeVars, mainVars, legacy>>

\* androidScreen(): each path is set when it is not undefined, and the
\* configuration saved when one of them is.
AndroidScreen ==
    /\ setup.pc = "screen" /\ setup.screen = "android"
    /\ \E answered \in BOOLEAN :
        setup' = ScreenWrote(answered, IF answered THEN 2 ELSE 0, IF answered THEN 1 ELSE 0)
    /\ SetupFrame

\* iosScreen(): returns at once unless the platform is darwin, and writes
\* nothing.
IosScreen ==
    /\ setup.pc = "screen" /\ setup.screen = "ios"
    /\ setup' = Complete(setup, NoValue)
    /\ SetupFrame

\* checkScreen(), Directory Permissions: the list of directories is made.
CheckScreen ==
    /\ setup.pc = "screen" /\ setup.screen = "check"
    /\ \E n \in 1..MaxDirs :
        \E d \in [1..n -> DirStates] :
            setup' = [setup EXCEPT !.dirs = d, !.dirPos = 1, !.report = <<>>,
                                   !.pc = "checking"]
    /\ SetupFrame

\* The body of the loop over dirs: if (dir) { dir = isDirWritable(dir); ... }
CheckDirectory ==
    /\ setup.pc = "checking"
    /\ setup.dirPos <= Len(setup.dirs)
    /\ LET i == setup.dirPos
           state == setup.dirs[i]
           l == [setup EXCEPT !.dirPos = i + 1]
       IN  setup' =
            IF state = "unset"
            THEN l
            ELSE IF isDirWritable(state) = "throws"
            THEN [l EXCEPT !.pc = "threw"]
            ELSE IF isDirWritable(state) = "dir"
            THEN IF isDirWritable(state) = "dir"
                 THEN [l EXCEPT !.report = Append(@, Line(i, "ok", TRUE))]
                 ELSE [l EXCEPT !.report = Append(@, Line(i, "bad", TRUE))]
            ELSE [l EXCEPT !.report = Append(@, Line(i, "warn", FALSE))]
    /\ SetupFrame

\* The loop over dirs is done and checkScreen() returns.
CheckDone ==
    /\ setup.pc = "checking"
    /\ setup.dirPos > Len(setup.dirs)
    /\ setup' = Complete(setup, NoValue)
    /\ SetupFrame

----------------------------------------------------------------------------
\* Before any command is registered.
CliInit ==
    /\ conf = EmptyConf
    /\ switches = <<>>
    /\ hooks = <<>>
    /\ tsListener = FALSE
    /\ values = NoOptions
    /\ argv = <<>>
    /\ pos = 1
    /\ hookPos = 1
    /\ pc = "new"
    /\ cliReady = FALSE
    /\ cliCommand = "none"
    /\ hookLog = <<>>
    /\ executed = 0
    /\ fired = <<>>
    /\ commandPlatform = NoValue
    /\ tree = NoOptions
    /\ cmdNames = <<>>
    /\ leaf = NoValue
    /\ thrown = NoFailure
    /\ cliProgram = FALSE
    /\ hstage = "init"
    /\ errOut = <<>>
    /\ helpOf = "none"
    /\ exitStatus = Undefined
    /\ legacy = LegacyStart
    /\ setup = SetupStart

----------------------------------------------------------------------------
\* Spec: the Logger under any sequence of calls of its methods.

Init == LoggerInit /\ CliInit

Next ==
    \/ Log \/ Trace \/ Debug \/ Error \/ Info \/ Warn
    \/ Render
    \/ Banner
    \/ BannerEnabled
    \/ SkipBanner
    \/ SetLevel
    \/ Silence
    \/ TimestampEnabled

Spec == Init /\ [][Next]_vars

\* SpecCli: a descriptor is registered on a command node and the command is
\* invoked once.
NextCli ==
    \/ ApplyCommandConfig
    \/ CliReady
    \/ Invoke
    \/ ParseOption
    \/ FireHook
    \/ ExecuteCommand
    \/ RunTrace
    \/ RunInfo

SpecCli == Init /\ [][NextCli]_vars

\* SpecMain: cli.init() runs, with any Logger state, and throws; main.js
\* handles the failure.
NextMain ==
    \/ InitBanner
    \/ InitBannerEnabled
    \/ InitSkipBanner
    \/ InitSetLevel
    \/ InitSilence
    \/ InitFails
    \/ CatchBanner
    \/ CatchPrint
    \/ CatchHelp
    \/ CatchExit

SpecMain == Init /\ [][NextMain]_vars

\* SpecTree: a descriptor with subcommands is registered on the top-level
\* command, the command is invoked once, and main.js handles what is thrown.
NextTree ==
    \/ TreeApplyConfig
    \/ TreeInvoke
    \/ TreeParseOption
    \/ TreeProcessArguments
    \/ TreeFireHook
    \/ TreeExecuteCommand
    \/ InitFails
    \/ CatchBanner
    \/ CatchPrint
    \/ CatchHelp
    \/ CatchExit

SpecTree == Init /\ [][NextTree]_vars

\* SpecRun: the legacy entry point run(), from the loading of the
\* configuration to cli.go(), in one process after the other.
NextRun ==
    \/ LoadConfig
    \/ EnsureSdkPaths
    \/ ResolveSdk
    \/ InvalidSdk
    \/ CheckSdk
    \/ Go
    \/ CheckTitaniumSdk
    \/ RunAgain

SpecRun == Init /\ [][NextRun]_vars

\* SpecSetup: one run of the setup wizard.
NextSetup ==
    \/ SetupRun
    \/ EnterScreen
    \/ MainmenuScreen
    \/ QuickScreen
    \/ UserScreen
    \/ AppScreen
    \/ NetworkScreen
    \/ CliScreen
    \/ AndroidScreen
    \/ IosScreen
    \/ CheckScreen
    \/ CheckDirectory
    \/ CheckDone

SpecSetup == Init /\ [][NextSetup]_vars

----------------------------------------------------------------------------
\* Claims about the Logger

\* Number of times the banner text was written.
BannerWrites == Cardinality({i \in 1..Len(out) : out[i].text = "banner"})

\* The step wrote something / wrote nothing.
Wrote == out' # out

\* The order the specification gives the five severities.
SeverityOrder ==
    [n \in Severities |->
        CASE n = "trace" -> 1
          [] n = "debug" -> 2
          [] n = "info"  -> 3
          [] n = "warn"  -> 4
          [] n = "error" -> 5]

\* A call of one of the six logging methods.
LogCall == Log \/ Trace \/ Debug \/ Error \/ Info \/ Warn

\* C1: whatever the sequence of Logger calls, the banner text is written at
\* most once and the 'cli:logger-banner' event is emitted at most once.
C1_BannerAtMostOnce == BannerWrites <= 1 /\ bannerEvents <= 1

\* The banner was written first, and another message after it.
C1_Witness ==
    /\ Len(out) = 2
    /\ out[1].text = "banner"
    /\ bannerEvents = 1
    /\ bannerRendered

\* C2: once silence() has set the threshold to 0, and until setLevel changes
\* it, a call of log, info, warn, error, trace or debug writes nothing.
C2_SilenceSuppresses == [][(level = 0 /\ LogCall) => ~Wrote]_vars

\* C3: with the default threshold or after setLevel(L), L one of the five
\* severities, severity method M writes iff M is at or above L in the order
\* trace < debug < info < warn < error.
C3_SeverityFilter ==
    [][\A L \in Severities :
          level = levels[L] =>
              /\ Trace => (Wrote <=> SeverityOrder["trace"] >= SeverityOrder[L])
              /\ Debug => (Wrote <=> SeverityOrder["debug"] >= SeverityOrder[L])
              /\ Info  => (Wrote <=> SeverityOrder["info"]  >= SeverityOrder[L])
              /\ Warn  => (Wrote <=> SeverityOrder["warn"]  >= SeverityOrder[L])
              /\ Error => (Wrote <=> SeverityOrder["error"] >= SeverityOrder[L])]_vars

\* C4: log() writes its message under the default threshold and under every
\* threshold setLevel(L) sets, L one of the five severities.
C4_LogAlwaysWrites ==
    [][(Log /\ \E L \in Severities : level = levels[L]) => Wrote]_vars

\* C5: banner() writes the banner and emits the event iff bannerEnabled is
\* true, skipBanner is false, the threshold is a non-zero number and the
\* banner was not rendered before; otherwise it writes nothing, emits nothing
\* and leaves bannerWasRendered() as it was.
C5_BannerGate ==
    [][Banner =>
         IF bannerEnabled /\ ~skipBanner /\ level # 0 /\ level # Undefined
               /\ ~bannerRendered
         THEN /\ out' = Append(out, Entry("stdout", "banner", FALSE))
              /\ bannerEvents' = bannerEvents + 1
              /\ bannerRendered'
         ELSE /\ out' = out
              /\ bannerEvents' = bannerEvents
              /\ bannerRendered' = bannerRendered]_vars

\* banner() has rendered, and the banner was switched off or skipped since.
C5_Witness ==
    /\ bannerRendered
    /\ BannerWrites = 1
    /\ bannerEvents = 1
    /\ (~bannerEnabled \/ skipBanner)

\* C6: render(level, stream, message) writes message to stream iff level >=
\* the threshold; the timestamp prefix is written before it iff the message
\* is written and timestampEnabled is true at that call; a toggle of
\* timestampEnabled leaves what was already written as it is.
C6_RenderContract ==
    [][/\ \A lvl \in RenderLevels, s \in Streams :
            RenderCall(lvl, s) =>
                IF GE(lvl, level)
                THEN out' = Append(out, Entry(s, "msg", timestampEnabled))
                ELSE out' = out
       /\ TimestampEnabled => out' = out
       /\ Len(out') >= Len(out) /\ SubSeq(out', 1, Len(out)) = out]_vars

\* Two render() calls wrote, the first with the prefix and, after a toggle,
\* the second without.
C6_Witness ==
    /\ Len(out) = 2
    /\ out[1].text = "msg" /\ out[1].ts
    /\ out[2].text = "msg" /\ ~out[2].ts
    /\ out[2].stream = "stderr"

----------------------------------------------------------------------------
\* Claims about applyCommandConfig

\* Parsing of the command line has completed without an error.
ParseCompleted == pc \in {"hooks", "ran"}

\* Switch name is on the command line / the value it was last given.
Supplied(name) == \E i \in 1..Len(argv) : argv[i].name = name
LastSupplied(name) ==
    LET last == CHOOSE i \in 1..Len(argv) :
                    /\ argv[i].name = name
                    /\ \A j \in (i + 1)..Len(argv) : argv[j].name # name
    IN  argv[last].value

\* The descriptor has log-level and no timestamp option, and the command
\* line has --timestamp and --log-level trace.
TimestampScenario ==
    /\ "log-level" \in DOMAIN conf.options
    /\ "timestamp" \notin DOMAIN conf.options
    /\ Supplied("timestamp")
    /\ Supplied("log-level") /\ LastSupplied("log-level") = "trace"

\* The command ran and the trace() it called last wrote its line.
TraceLineWritten == out # <<>> /\ out[Len(out)].text = "trace"

\* C7 as stated: in that scenario, once the command line is parsed,
\* timestamping is on whenever the option event fired, every log line
\* written is prefixed with a timestamp and trace-level lines are written.
C7_TimestampRegardless ==
    (ParseCompleted /\ TimestampScenario) =>
        /\ timestampEnabled
        /\ \A i \in 1..Len(out) : out[i].ts
        /\ (pc = "ran" /\ lastCall = "trace") => TraceLineWritten

\* The node parses --timestamp and its 'option:timestamp' listener runs.
TimestampEvent ==
    /\ ParseOption
    /\ argv[pos].name = "timestamp"
    /\ tsListener
    /\ pc' # "failed"

\* C7, amended: the 'option:timestamp' listener turns timestamping on when
\* cli.ready is true as the event fires and leaves it as it is otherwise; in
\* the scenario, once the command line is parsed, a log line is prefixed iff
\* timestamping was turned on, and trace-level lines are written.
C7_TimestampWhenReady ==
    /\ [][TimestampEvent => (timestampEnabled' = (timestampEnabled \/ cliReady))]_vars
    /\ []((ParseCompleted /\ TimestampScenario) =>
            /\ \A i \in 1..Len(out) : out[i].ts = timestampEnabled
            /\ (pc = "ran" /\ lastCall = "trace") => TraceLineWritten)

\* The scenario ran with the CLI ready: a trace line was written, prefixed.
C7_Witness ==
    /\ pc = "ran"
    /\ TimestampScenario
    /\ timestampEnabled
    /\ out # <<>> /\ out[1].text = "trace" /\ out[1].ts

\* C8: once the command line is parsed, the value of every registered option
\* whose descriptor has a default is that default when the option is not on
\* the command line, and the value supplied (the last one) when it is.
C8_DefaultOrSupplied ==
    ParseCompleted =>
        \A n \in DOMAIN conf.options \ {"sdk"} :
            conf.options[n].default # NoValue =>
                /\ n \in DOMAIN values
                /\ values[n] = IF Supplied(n)
                               THEN LastSupplied(n)
                               ELSE conf.options[n].default

\* The command ran with one defaulted option omitted and another supplied.
C8_Witness ==
    /\ pc = "ran"
    /\ "log-level" \in DOMAIN conf.options /\ ~Supplied("log-level")
    /\ values["log-level"] = "info"
    /\ "output" \in DOMAIN conf.options /\ conf.options["output"].default = "report"
    /\ Supplied("output") /\ values["output"] = "json"

\* The command line gives a registered option with an allowed-values list a
\* value outside the list.
OutsideChoices ==
    \E i \in 1..Len(argv) :
        LET n == argv[i].name
        IN  /\ n \in DOMAIN conf.options \ {"sdk"}
            /\ conf.options[n].isArray
            /\ argv[i].value \notin conf.options[n].values

\* C9: an invocation that gives such a value never gets past parsing: it ends
\* in the usage error, with no preAction hook or option callback invoked and
\* cli.executeCommand not called.
C9_InvalidChoiceStops ==
    (pc \notin {"new", "registered"} /\ OutsideChoices) =>
        /\ pc \in {"parsing", "failed"}
        /\ pc = "failed" => cliCommand = NodeName
        /\ hookPos = 1
        /\ hookLog = <<>>
        /\ executed = 0

\* A node with a hook registered failed on a value outside the choices, after
\* it had parsed another switch.
C9_Witness ==
    /\ pc = "failed"
    /\ OutsideChoices
    /\ pos = 2
    /\ hooks # <<>>

\* C10: no switch named 'sdk' is on the node after registration, whether
\* 'sdk' is among the descriptor's options or among its flags.
C10_NoSdkSwitch ==
    pc # "new" => \A i \in 1..Len(switches) : switches[i].name # "sdk"

\* The options with a preAction hook on the node, and how often the hook of
\* option name fired.
HookSet == {hooks[i] : i \in 1..Len(hooks)}
FireCount(name) == Cardinality({i \in 1..Len(fired) : fired[i].name = name})

\* C11: a registered option has a preAction hook iff its descriptor has a
\* function callback or it is named 'platform'; no hook fires before the
\* command line is parsed or after a parse error, a hook fires only once
\* parsing has completed and before cli.executeCommand, and when
\* cli.executeCommand is called every hook has fired exactly once.
C11_HooksFireOnce ==
    /\ [](pc # "new" =>
            \A n \in DOMAIN conf.options \ {"sdk"} :
                n \in HookSet <=> (conf.options[n].callback # "none" \/ n = "platform"))
    /\ [](pc \in {"new", "registered", "parsing", "failed"} => fired = <<>>)
    /\ [](\A n \in OptionNames \cup {"platform"} :
            FireCount(n) <= (IF n \in HookSet THEN 1 ELSE 0))
    /\ [][FireHook => (pos > Len(argv) /\ executed = 0)]_vars
    /\ [][ExecuteCommand => \A n \in HookSet : FireCount(n) = 1]_vars
    /\ [](executed > 0 => \A n \in HookSet : FireCount(n) = 1)

\* A command with a callback option and a callback-less 'platform' option
\* ran: both hooks had fired.
C11_Witness ==
    /\ pc = "ran"
    /\ argv # <<>>
    /\ "platform" \in HookSet /\ conf.options["platform"].callback = "none"
    /\ "output" \in HookSet
    /\ Len(fired) = 2

\* The platform value the hook resolves: the one supplied, else the default.
ResolvedPlatform ==
    IF Supplied("platform")
    THEN Parsed(LastSupplied("platform"))
    ELSE conf.options["platform"].default

\* C13: when the 'platform' hook fires, cli.command.platform becomes the
\* entry of the descriptor's platforms map for the resolved platform value
\* if the map has one, and keeps its value if the descriptor has no
\* platforms map or the map has no entry for the value; the hook of any
\* other option leaves it alone.
C13_PlatformHook ==
    [][FireHook =>
        IF /\ hooks[hookPos] = "platform"
           /\ conf.platforms.defined
           /\ ResolvedPlatform \in DOMAIN conf.platforms.entries
        THEN commandPlatform' = conf.platforms.entries[ResolvedPlatform]
        ELSE commandPlatform' = commandPlatform]_vars

\* --platform android was given to a command whose platforms map has an
\* android entry, and the hook attached it.
C13_Witness ==
    /\ pc = "ran"
    /\ Supplied("platform")
    /\ conf.platforms.defined
    /\ commandPlatform = "androidConf"

\* The synthetic --timestamp: the boolean switch cmd.option() adds, with its
\* 'option:timestamp' listener.
HasSyntheticTimestamp ==
    /\ tsListener
    /\ \E i \in 1..Len(switches) :
            switches[i].name = "timestamp" /\ switches[i].kind = "flag"

\* C14: after registration the node has the synthetic --timestamp iff the
\* descriptor's options contain 'log-level' and do not contain 'timestamp';
\* a descriptor with no options has none.
C14_SyntheticTimestamp ==
    pc # "new" =>
        /\ HasSyntheticTimestamp <=>
                ("log-level" \in DOMAIN conf.options /\ "timestamp" \notin DOMAIN conf.options)
        /\ DOMAIN conf.options = {} => ~HasSyntheticTimestamp
        /\ ~HasSyntheticTimestamp => ~tsListener

\* A descriptor with 'log-level' and no 'timestamp' was registered, and
\* --timestamp was parsed as a switch of the node.
C14_Witness ==
    /\ ParseCompleted
    /\ "log-level" \in DOMAIN conf.options
    /\ HasSyntheticTimestamp
    /\ Supplied("timestamp")

----------------------------------------------------------------------------
\* Claims about the handler of main.js

\* The handler has printed the error message.
ErrorPrinted == hstage \in {"printed", "helped", "exited"}

\* C17 as stated: once the handler has printed the error message the banner
\* has been rendered, whatever the Logger's state was.
C17_BannerBeforeError == ErrorPrinted => (bannerRendered /\ BannerWrites = 1)

\* C17, amended: the handler's banner call renders the banner, whatever
\* bannerEnabled and skipBanner were, iff it was not rendered before and the
\* threshold is set and not zero; so once the error message is printed the
\* banner has been rendered unless the Logger is silenced or has no
\* threshold, in which case it is rendered only if it was before.
C17_BannerUnlessSilenced ==
    /\ [][CatchBanner =>
            /\ bannerRendered' = (bannerRendered \/ Truthy(level))
            /\ (out' # out) = (~bannerRendered /\ Truthy(level))]_vars
    /\ [](ErrorPrinted => (Truthy(level) => (bannerRendered /\ BannerWrites = 1)))

\* The error message is printed after the handler rendered the banner.
C17_Witness ==
    /\ hstage = "printed"
    /\ errOut # <<>>
    /\ lastCall = "banner"
    /\ out = <<Entry("stdout", "banner", FALSE)>>

\* The position of the message block in what console.error printed.
MessageBlocks == {"Error: message", "stack"}
MessageIndex == CHOOSE i \in 1..Len(errOut) : errOut[i] \in MessageBlocks

----------------------------------------------------------------------------
\* Claims about subcommands

\* Node a is on the path to node b / is a proper ancestor of node b.
OnPathTo(a, b) == \E i \in 1..Len(PathTo(b)) : PathTo(b)[i] = a
IsAncestor(a, b) == a # b /\ OnPathTo(a, b)

\* How often the hook of option name of node n fired.
FiredCount(n, name) ==
    Cardinality({i \in 1..Len(fired) : fired[i] = [node |-> n, name |-> name]})

\* C12: in an invocation of the tree only hooks of nodes on the path to the
\* resolved node fire, every hook of an ancestor fires before any hook of
\* its descendant, no hook fires once cli.executeCommand was called, and
\* when cli.executeCommand is called for the resolved node every hook of
\* every node of the path has fired exactly once.
C12_RootToLeafHooks ==
    /\ [](leaf # NoValue =>
            \A i \in 1..Len(fired) :
                /\ OnPathTo(fired[i].node, leaf)
                /\ \A j \in 1..Len(fired) :
                        IsAncestor(fired[i].node, fired[j].node) => i < j)
    /\ [][TreeFireHook => executed = 0]_vars
    /\ [][TreeExecuteCommand =>
            \A n \in DOMAIN tree :
                OnPathTo(n, leaf) =>
                    \A k \in 1..Len(tree[n].hooks) : FiredCount(n, tree[n].hooks[k]) = 1]_vars

\* 'sdk install local' ran with hooks on all three nodes: the two of the
\* top-level command fired first, the one of 'local' last.
C12_Witness ==
    /\ pc = "ran"
    /\ leaf = "local"
    /\ Len(fired) = 4
    /\ fired[1].node = RootName /\ fired[2].node = RootName
    /\ fired[3].node = "install"
    /\ fired[4].node = "local"

\* The last node the command line names.
LastNamed == IF cmdNames = <<>> THEN RootName ELSE cmdNames[Len(cmdNames)]

\* C15: a subcommand node is marked default iff its name is its parent
\* descriptor's defaultSubcommand, so a node has at most one default child;
\* an invocation resolves to the last node it names if that node has no
\* default child, and otherwise goes on from it through default children
\* only, to the node that naming them would resolve to; that node's hooks
\* fire and its action runs.
C15_DefaultSubcommand ==
    /\ \A n \in DOMAIN tree \ {RootName} :
            tree[n].isDefault <=> (tree[tree[n].parent].conf.defaultSubcommand = n)
    /\ \A n \in DOMAIN tree : Cardinality(DefaultChild(n)) <= 1
    /\ leaf # NoValue =>
            /\ OnPathTo(LastNamed, leaf)
            /\ DefaultChild(leaf) = {}
            /\ \A n \in DOMAIN tree :
                    (OnPathTo(n, leaf) /\ IsAncestor(LastNamed, n)) => tree[n].isDefault
            /\ leaf = ResolveFrom(RootName, Tail(PathTo(leaf)))
    /\ pc = "ran" /\ leaf # NoValue => (executed = 1 /\ fired = PreActionHooks(leaf))

\* The command was invoked with no subcommand name and its default
\* subcommand 'list' ran, not the other subcommand.
C15_Witness ==
    /\ pc = "ran"
    /\ cmdNames = <<>>
    /\ leaf = "list"
    /\ "install" \in DOMAIN tree
    /\ executed = 1

\* A subcommand node fails to parse its command line.
SubcommandParseError ==
    /\ TreeParseOption \/ TreeProcessArguments
    /\ leaf \in SubcommandNames
    /\ pc' = "failed"

\* C16: a subcommand node that fails to parse its command line (unknown
\* switch, value outside the choices, required argument missing) records
\* itself as cli.command as the TiError is thrown; the handler prints the
\* help of cli.command if one is recorded, so of that subcommand, and the
\* help of the root program only when none is.
C16_HelpOfFailingNode ==
    /\ [][SubcommandParseError =>
            (cliCommand' = leaf /\ thrown'.kind = "TiError")]_vars
    /\ [][CatchHelp =>
            helpOf' = (IF cliCommand # "none" THEN cliCommand
                       ELSE IF cliProgram THEN ProgramName ELSE "none")]_vars
    /\ []((pc = "failed" /\ leaf \in SubcommandNames /\ helpOf # "none") =>
            helpOf = leaf)
    /\ [](helpOf = ProgramName => cliCommand = "none")

\* 'sdk install' with a switch the subcommand does not have: the help of
\* 'install' was printed after the error message.
C16_Witness ==
    /\ pc = "failed"
    /\ leaf = "install"
    /\ ~MissingArgument("install")
    /\ errOut = <<"Error: message">>
    /\ helpOf = "install"

\* C18, for the usage errors of subcommand nodes: once the process has
\* ended after such an error its exit status is 1, and the error message
\* and the subcommand's help were printed.
C18_UsageErrorExitsWithOne ==
    (hstage = "exited" /\ pc = "failed" /\ leaf \in SubcommandNames) =>
        /\ exitStatus = 1
        /\ errOut # <<>>
        /\ helpOf = leaf


----------------------------------------------------------------------------
\* The threshold after setLevel() and silence()

\* The thresholds the Logger is meant to have: silenced, or a severity rank.
ThresholdRanks == 0..5

\* C27: after any sequence of setLevel(name) and silence() calls, name being
\* any string, the threshold is 0 or one of the severity ranks 1..5 (so a
\* name that is no level leaves the rendered messages as they were).
C27_ThresholdInRange == level \in ThresholdRanks


----------------------------------------------------------------------------
\* The module of the nodes of a subcommand tree

\* C23: once the top-level command is registered, every node of its tree,
\* at any depth, has the module of the top-level command.
C23_SharedModule == \A n \in DOMAIN tree : tree[n].module = RootModule


----------------------------------------------------------------------------
\* Flags with a default, falsy option values, switch names

\* C25: once the command line is parsed, a flag whose descriptor declares a
\* default and that is not on the command line has that default as its
\* value.
C25_FlagDefault ==
    ParseCompleted =>
        \A n \in DOMAIN conf.flagDefaults :
            ~Supplied(n) => GetOptionValue(n) = conf.flagDefaults[n]

\* C26: the value every preAction hook handed to its option's callback is
\* the value the parsed options hold for that option.
C26_HookValueIsParsedValue ==
    \A i \in 1..Len(hookLog) : hookLog[i].value = GetOptionValue(hookLog[i].name)

\* C24: no node holds two switches with the same name.
C24_UniqueSwitchNames ==
    \A i, j \in 1..Len(switches) : switches[i].name = switches[j].name => i = j


----------------------------------------------------------------------------
\* Claims about the legacy entry point

\* The SDK was looked up once when the command is dispatched, and never more
\* than once in a process.
ResolvedOnce ==
    /\ legacy.resolutions <= 1
    /\ (legacy.pc \in {"go", "running", "checked"} \/ legacy.went) =>
            legacy.resolutions = 1

\* --sdk names an SDK that is not installed, an SDK of version 3.0 or newer
\* is installed, and run() is past its checks of the SDK.
UnknownSdkNamed ==
    /\ legacy.resolutions = 1
    /\ legacy.pc \in {"go", "running", "checked", "exited"}
    /\ legacy.argvSdk \notin {NoValue, "latest"} \cup legacy.installed
    /\ Selectable(legacy.installed) # {}

\* C21: the SDK is resolved once, before dispatch; in that case the banner
\* and an error are printed, the process exits with 1 and cli.go() is not
\* called.
C21_InvalidSdkPrintsAndExits ==
    /\ ResolvedOnce
    /\ UnknownSdkNamed =>
        /\ legacy.out = <<"banner", "error", "log">>
        /\ legacy.exit = 1
        /\ ~legacy.went

\* --sdk 7.7.7 with 9.0.0 installed and selected in the configuration: the
\* banner and the error were printed and the process exited.
C21_Witness ==
    /\ legacy.argvSdk = "7.7.7"
    /\ legacy.installed = {"9.0.0"}
    /\ legacy.config.selected = "9.0.0"
    /\ legacy.pc = "exited"
    /\ legacy.exit = 1
    /\ legacy.out = <<"banner", "error", "log">>

\* Some configured SDK path resolves to the default install location.
SomePathResolves(c) ==
    \E i \in 1..Len(PathItems(c)) :
        resolvePath(PathItems(c)[i]) = resolvePath(c.location)

\* C30: with a default install location configured, the step appends the
\* resolved location to the SDK paths and saves the configuration if and only
\* if no SDK path resolves to that location, and otherwise leaves paths and
\* configuration alone; run again on the configuration it left, it appends
\* nothing and saves nothing.
C30_EnsureSdkPaths ==
    [][EnsureSdkPaths =>
        /\ legacy.config.location # NoValue =>
            IF SomePathResolves(legacy.config)
            THEN /\ legacy'.config = legacy.config
                 /\ legacy'.saves = legacy.saves
            ELSE /\ legacy'.config.sdkPaths.items =
                        Append(PathItems(legacy.config),
                               resolvePath(legacy.config.location))
                 /\ legacy'.saves = legacy.saves + 1
        /\ legacy.ensured =>
            /\ legacy'.config = legacy.config
            /\ legacy'.saves = legacy.saves]_vars

\* A second run on a configuration whose location the first run appended:
\* the paths hold the location once, after a path that does not resolve to
\* it, and the second run saved nothing.
C30_Witness ==
    /\ legacy.runs = 1
    /\ legacy.pc = "resolve"
    /\ legacy.ensured
    /\ legacy.config.location = "~/sdks"
    /\ legacy.config.sdkPaths.items = <<"/opt/ti", "/home/sdks">>
    /\ legacy.saves = 0


----------------------------------------------------------------------------
\* Claims about the setup wizard

\* The screen shown last.
LastShown == setup.shown[Len(setup.shown)]

\* The screen shown last has returned to the loop of run().
ScreenCompleted == setup.pc = "loop" /\ setup.shown # <<>>

\* C22: when the prompt of quickScreen, userScreen, appScreen, networkScreen,
\* cliScreen or androidScreen is interrupted, the screen returns without
\* having called config.set or config.save.
C22_InterruptedScreenWritesNothing ==
    (ScreenCompleted /\ LastShown \in ConfigScreens /\ setup.prompt = "interrupted") =>
        setup.sets = 0 /\ setup.saves = 0

\* C28: the first screen shown is the one cli.argv._[0] names, the main menu
\* when it names none; the screen shown after a screen other than the main
\* menu is the main menu; run() returns only on a name that is no screen and
\* the process exits only in the main menu; so a run that showed a screen
\* and ended has shown the main menu.
C28_RunLoop ==
    /\ setup.shown # <<>> => setup.shown[1] = Or(setup.argv0, "mainmenu")
    /\ \A i \in 1..(Len(setup.shown) - 1) :
            setup.shown[i] # "mainmenu" => setup.shown[i + 1] = "mainmenu"
    /\ (ScreenCompleted /\ LastShown # "mainmenu") => setup.next = "mainmenu"
    /\ setup.pc = "returned" => setup.next \notin ScreenNames
    /\ setup.pc = "exited" => setup.shown # <<>> /\ LastShown = "mainmenu"
    /\ (setup.pc \in {"returned", "exited"} /\ setup.shown # <<>>) =>
            \E i \in 1..Len(setup.shown) : setup.shown[i] = "mainmenu"

\* setup started on 'quick', went on to the main menu and, from there, to a
\* third screen.
C28_Witness ==
    /\ setup.argv0 = "quick"
    /\ Len(setup.shown) = 3
    /\ setup.shown[1] = "quick" /\ setup.shown[2] = "mainmenu"
    /\ setup.shown[3] = "check"

\* The lines reported for directory i.
LinesOf(i) == {j \in 1..Len(setup.report) : setup.report[j].dir = i}

\* C29: the directory report does not throw and has, for every configured
\* directory it has looked at, exactly one line: 'ok' for a writable
\* directory, 'bad' for one that exists and cannot be written to, 'warn'
\* naming the directory for a missing one.
C29_DirectoryReport ==
    setup.screen = "check" =>
        /\ setup.pc # "threw"
        /\ \A i \in 1..(setup.dirPos - 1) :
            setup.dirs[i] # "unset" =>
                /\ Cardinality(LinesOf(i)) = 1
                /\ \A j \in LinesOf(i) :
                    /\ setup.report[j].named
                    /\ setup.report[j].kind =
                        CASE setup.dirs[i] = "writable" -> "ok"
                          [] setup.dirs[i] = "readonly" -> "bad"
                          [] setup.dirs[i] = "missing"  -> "warn"

============================================================================
